---- MODULE Spec2Model ----
(***************************************************************************)
(* Model of vodafonem2m/vodafonem2m.py: the VodafoneM2M client, its cached *)
(* OAuth token, the request dispatcher and the response validation.        *)
(***************************************************************************)
EXTENDS Integers, Sequences, FiniteSets, TLC

VARIABLES
    now,        \* datetime.utcnow(), in whole seconds
    token,      \* self.token: None or the dict stored by set_auth_token
    built,      \* TRUE once __init__ has returned normally
    pc,         \* per caller: position inside the running call
    call,       \* per caller: the public operation being run and its arguments
    loc,        \* per caller: locals of the running call (frames of the nested methods)
    wire,       \* per caller: requests handed to session.request during the running call
    result,     \* per caller: how the last call ended (returned value or raised exception)
    vIn,        \* argument of a stand-alone _handle_api_response evaluation
    vOut        \* its outcome

vars == <<now, token, built, pc, call, loc, wire, result, vIn, vOut>>

-----------------------------------------------------------------------------
(* Python / JSON values.  Every value is a record with a `kind` field.      *)

None == [kind |-> "null"]
JBool(b) == [kind |-> "bool", b |-> b]
JNum(n) == [kind |-> "num", n |-> n]
JStr(s) == [kind |-> "str", s |-> s]
JList(xs) == [kind |-> "list", xs |-> xs]
JDict(items) == [kind |-> "dict", items |-> items]
DateTime(t) == [kind |-> "datetime", t |-> t]

(* Outcome of evaluating a Python expression or call. *)
Ok(v) == [kind |-> "ok", val |-> v]
Raise(exc, tag, args) == [kind |-> "raise", exc |-> exc, tag |-> tag, args |-> args]

IsOk(o) == o.kind = "ok"

(* bool(v): Python truthiness. *)
Truthy(v) ==
    CASE v.kind = "null" -> FALSE
      [] v.kind = "bool" -> v.b
      [] v.kind = "num" -> v.n # 0
      [] v.kind = "str" -> Len(v.s) > 0
      [] v.kind = "list" -> Len(v.xs) > 0
      [] v.kind = "dict" -> Len(v.items) > 0
      [] OTHER -> TRUE

(* sub in s for two Python strings. *)
Contains(s, sub) ==
    \E i \in 1..(Len(s) - Len(sub) + 1) : SubSeq(s, i, i + Len(sub) - 1) = sub

HasKey(d, k) == \E i \in 1..Len(d.items) : d.items[i][1] = k

Lookup(d, k) == d.items[CHOOSE i \in 1..Len(d.items) : d.items[i][1] = k][2]

(* `k in v` for a str k. *)
PyIn(k, v) ==
    CASE v.kind = "dict" -> Ok(HasKey(v, k))
      [] v.kind = "list" -> Ok(\E i \in 1..Len(v.xs) : v.xs[i] = JStr(k))
      [] v.kind = "str" -> Ok(Contains(v.s, k))
      [] OTHER -> Raise("TypeError", "not iterable", <<>>)

(* v[k] for a str k. *)
GetItem(v, k) ==
    CASE v.kind = "dict" ->
            IF HasKey(v, k) THEN Ok(Lookup(v, k)) ELSE Raise("KeyError", k, <<>>)
      [] OTHER -> Raise("TypeError", "subscript", <<>>)

(* d[k] = x on a dict: replaces the value in place or appends the key. *)
SetItem(d, k, x) ==
    IF HasKey(d, k)
    THEN JDict([i \in 1..Len(d.items) |->
                    IF d.items[i][1] = k THEN <<k, x>> ELSE d.items[i]])
    ELSE JDict(Append(d.items, <<k, x>>))

(* list(v.keys())[0] *)
FirstKey(v) ==
    IF v.kind = "dict" THEN Ok(v.items[1][1])
    ELSE Raise("AttributeError", "keys", <<>>)

-----------------------------------------------------------------------------
(* _handle_api_response                                                     *)

(* Lines 135-140, the body of the try block. *)
ReturnCodeCheck(json_response) ==
    LET k0 == FirstKey(json_response) IN
    IF ~IsOk(k0) THEN k0 ELSE
    LET first == GetItem(json_response, k0.val) IN
    IF ~IsOk(first) THEN first ELSE
    LET ret == GetItem(first.val, "return") IN
    IF ~IsOk(ret) THEN ret ELSE
    LET codes == GetItem(ret.val, "returnCode") IN
    IF ~IsOk(codes) THEN codes ELSE
    LET major == GetItem(codes.val, "majorReturnCode") IN
    IF ~IsOk(major) THEN major ELSE
    IF major.val # JStr("000")
    THEN \* `or` short-circuits: the message is formatted next
         LET desc == GetItem(codes.val, "description") IN
         IF ~IsOk(desc) THEN desc ELSE
         LET minor == GetItem(codes.val, "minorReturnCode") IN
         IF ~IsOk(minor) THEN minor ELSE
         Raise("ValueError", "Return Code", <<desc.val, major.val, minor.val>>)
    ELSE LET minor == GetItem(codes.val, "minorReturnCode") IN
         IF ~IsOk(minor) THEN minor ELSE
         IF minor.val # JStr("0000")
         THEN LET desc == GetItem(codes.val, "description") IN
              IF ~IsOk(desc) THEN desc ELSE
              Raise("ValueError", "Return Code", <<desc.val, major.val, minor.val>>)
         ELSE Ok(json_response)

(* Lines 134-144: the try block with its two except clauses. *)
TryReturnCode(json_response) ==
    LET r == ReturnCodeCheck(json_response) IN
    IF ~IsOk(r) /\ r.exc \in {"KeyError", "TypeError"}
    THEN Ok(json_response)
    ELSE r

(* Lines 129-132: the description branch. *)
DescriptionCheck(json_response) ==
    LET d == GetItem(json_response, "description") IN
    IF ~IsOk(d) THEN d ELSE
    LET svc == PyIn("Service Error", d.val) IN
    IF ~IsOk(svc) THEN svc ELSE
    IF svc.val
    THEN LET id == GetItem(json_response, "id") IN
         IF ~IsOk(id) THEN id ELSE
         Raise("ValueError", "Service Error", <<id.val, d.val>>)
    ELSE Ok(json_response)

(* Lines 126-128: the error branch. *)
ErrorCheck(json_response) ==
    LET e == GetItem(json_response, "error") IN
    IF ~IsOk(e) THEN e ELSE
    LET ed == GetItem(json_response, "error_description") IN
    IF ~IsOk(ed) THEN ed ELSE
    Raise("ValueError", "Standard Error", <<e.val, ed.val>>)

handle_api_response(json_response) ==
    IF ~Truthy(json_response)
    THEN Raise("ValueError", "no data returned", <<>>)
    ELSE
    LET hasErr == PyIn("error", json_response) IN
    IF ~IsOk(hasErr) THEN hasErr ELSE
    IF hasErr.val THEN ErrorCheck(json_response) ELSE
    LET hasDesc == PyIn("description", json_response) IN
    IF ~IsOk(hasDesc) THEN hasDesc ELSE
    IF hasDesc.val THEN DescriptionCheck(json_response)
    ELSE TryReturnCode(json_response)

-----------------------------------------------------------------------------
(* Response bodies handed to _handle_api_response when it is evaluated on   *)
(* its own: what r.json() can produce.                                      *)

Opt(k, vals) == {<<>>} \cup {<< <<k, v>> >> : v \in vals}

ReturnCodeDicts ==
    {JDict(d \o ma \o mi) :
        d \in Opt("description", {JStr("failed")}),
        ma \in Opt("majorReturnCode", {JStr("000"), JStr("500")}),
        mi \in Opt("minorReturnCode", {JStr("0000"), JStr("0001")})}

Wrapped(c) == JDict(<< <<"return", JDict(<< <<"returnCode", c>> >>)>> >>)

FirstValues ==
    {Wrapped(c) : c \in ReturnCodeDicts \cup {JStr("000"), None}}
    \cup {JDict(<< <<"return", JNum(1)>> >>), JDict(<< <<"other", JNum(1)>> >>),
          JNum(5), JStr("text"), JList(<<JNum(1)>>), None, JBool(TRUE)}

TopExtras ==
    {<<>>,
     << <<"description", JStr("all fine")>> >>,
     << <<"description", JStr("A Service Error occurred")>> >>,
     << <<"description", JStr("A Service Error occurred")>>, <<"id", JStr("POL0001")>> >>,
     << <<"description", JNum(5)>> >>,
     << <<"description", JList(<<JStr("Service Error")>>)>> >>,
     << <<"error", JStr("invalid_client")>> >>,
     << <<"error", JStr("invalid_client")>>, <<"error_description", JStr("bad secret")>> >>,
     << <<"error", JStr("invalid_client")>>, <<"description", JStr("A Service Error occurred")>>,
        <<"id", JStr("POL0001")>> >>}

Bodies ==
    {JDict(<< <<"foo", f>> >> \o x) : f \in FirstValues, x \in TopExtras}
    \cup {JDict(x) : x \in TopExtras}
    \cup {JDict(<< <<"links", JNum(1)>>, <<"foo", Wrapped(c)>> >>) : c \in ReturnCodeDicts}
    \cup {None, JBool(FALSE), JBool(TRUE), JNum(0), JNum(5), JStr(""), JStr("text"),
          JStr("an error occurred"), JStr("description"), JList(<<>>), JList(<<JNum(1)>>),
          JList(<<JStr("error")>>), JList(<<JStr("description")>>)}

Pending == [kind |-> "pending"]

-----------------------------------------------------------------------------
(* int(x) and str(x)                                                        *)

DigitChars == <<"0", "1", "2", "3", "4", "5", "6", "7", "8", "9">>

IsDigit(ch) == \E i \in 1..10 : DigitChars[i] = ch

DigitVal(ch) == (CHOOSE i \in 1..10 : DigitChars[i] = ch) - 1

AllDigits(s) == Len(s) > 0 /\ \A i \in 1..Len(s) : IsDigit(SubSeq(s, i, i))

RECURSIVE StrToNat(_)
StrToNat(s) ==
    IF Len(s) = 0 THEN 0
    ELSE 10 * StrToNat(SubSeq(s, 1, Len(s) - 1)) + DigitVal(SubSeq(s, Len(s), Len(s)))

(* int(v) *)
PyInt(v) ==
    CASE v.kind = "num" -> Ok(v.n)
      [] v.kind = "bool" -> Ok(IF v.b THEN 1 ELSE 0)
      [] v.kind = "str" ->
            IF AllDigits(v.s) THEN Ok(StrToNat(v.s))
            ELSE IF Len(v.s) > 1 /\ SubSeq(v.s, 1, 1) = "-" /\ AllDigits(SubSeq(v.s, 2, Len(v.s)))
                 THEN Ok(0 - StrToNat(SubSeq(v.s, 2, Len(v.s))))
            ELSE IF Len(v.s) > 1 /\ SubSeq(v.s, 1, 1) = "+" /\ AllDigits(SubSeq(v.s, 2, Len(v.s)))
                 THEN Ok(StrToNat(SubSeq(v.s, 2, Len(v.s))))
            ELSE Raise("ValueError", "invalid literal for int()", <<>>)
      [] OTHER -> Raise("TypeError", "int() argument", <<>>)

(* "{}".format(v) for the values an access_token takes here *)
PyStr(v) ==
    CASE v.kind = "str" -> v.s
      [] v.kind = "num" -> ToString(v.n)
      [] v.kind = "null" -> "None"
      [] v.kind = "bool" -> IF v.b THEN "True" ELSE "False"

-----------------------------------------------------------------------------
(* The client                                                               *)

MaxTime == 3

(* nested handshakes allowed before the interpreter raises RecursionError *)
MaxDepth == 3

Callers == {1, 2}

Idle == [op |-> "none", headers |-> None]

NoLocals == [tokBefore |-> None, checked |-> "none", tCheck |-> 0, status |-> 0,
             acquired |-> None, gat |-> Pending, gatAt |-> 0, gatTok |-> None,
             depth |-> 0]

(* _is_token_expired with the comparison of line 90 written >= *)
is_token_expired_ge(tok, t) ==
    LET ts == GetItem(tok, "utc_timestamp") IN
    IF ~IsOk(ts) THEN ts ELSE
    LET ei == GetItem(tok, "expires_in") IN
    IF ~IsOk(ei) THEN ei ELSE
    LET secs == PyInt(ei.val) IN
    IF ~IsOk(secs) THEN secs ELSE
    IF ts.val.kind # "datetime" THEN Raise("TypeError", "unsupported operand", <<>>)
    ELSE Ok(t >= ts.val.t + secs.val)

(* _is_token_expired, lines 89-90, evaluated on self.token at time t *)
is_token_expired(tok, t) ==
    LET ts == GetItem(tok, "utc_timestamp") IN
    IF ~IsOk(ts) THEN ts ELSE
    LET ei == GetItem(tok, "expires_in") IN
    IF ~IsOk(ei) THEN ei ELSE
    LET secs == PyInt(ei.val) IN
    IF ~IsOk(secs) THEN secs ELSE
    IF ts.val.kind # "datetime" THEN Raise("TypeError", "unsupported operand", <<>>)
    ELSE Ok(t > ts.val.t + secs.val)

(* Line 78 without its expiry test: refresh only when nothing is cached *)
NeedsRefresh_absent_only(tok, t) == Ok(tok = None)

(* Line 78: self.token is None or self._is_token_expired() *)
NeedsRefresh(tok, t) ==
    IF tok = None THEN Ok(TRUE) ELSE is_token_expired(tok, t)

(* Lines 56-66: the headers set_auth_token passes to _send_message *)
BasicHeaders ==
    JDict(<< <<"Authorization", JStr("Basic <b64(username:password)>")>>,
             <<"Content-Type", JStr("application/x-www-form-urlencoded")>> >>)

(* Lines 170-174: the default headers of _send_message *)
BearerHeaders(t) ==
    JDict(<< <<"Authorization", JStr("Bearer " \o PyStr(t))>>,
             <<"Content-Type", JStr("application/json")>>,
             <<"accept", JStr("application/json")>> >>)

(* _send_message ignoring its headers argument: always the bearer branch *)
UseDefaultHeaders_always(headers) == TRUE

(* Line 169: `if not headers` *)
UseDefaultHeaders(headers) == ~Truthy(headers)

(* headers arguments a caller of _send_message may pass *)
HeaderArgs == {None, JDict(<<>>), JDict(<< <<"Accept", JStr("text/plain")>> >>)}

(* What the transport can answer: session.request raising, or a response   *)
(* with a status whose body r.json() parses or fails to parse.              *)
NetError == [kind |-> "neterr"]
Response(status, body) == [kind |-> "response", status |-> status, json |-> body]
Unparsable == Raise("JSONDecodeError", "Expecting value", <<>>)

ExpiresValues == {JNum(-1), JNum(0), JNum(1), JStr("2")}

TokenBodies ==
    {JDict(<< <<"access_token", JStr(a)>>, <<"expires_in", e>> >>) :
        a \in {"A", "B"}, e \in ExpiresValues}
    \cup {JDict(<< <<"expires_in", JNum(1)>> >>),
          JDict(<< <<"access_token", JStr("A")>> >>),
          JDict(<< <<"error", JStr("invalid_client")>>,
                   <<"error_description", JStr("bad secret")>> >>),
          JDict(<<>>),
          JList(<<JNum(1)>>)}

StatusCodes == {200, 401}

TokenResponses ==
    {NetError} \cup {Response(st, Unparsable) : st \in StatusCodes}
    \cup {Response(st, Ok(b)) : st \in StatusCodes, b \in TokenBodies}

ApiBodies ==
    {JDict(<< <<"links", JDict(<<>>)>> >>),
     JDict(<< <<"foo", Wrapped(JDict(<< <<"description", JStr("failed")>>,
                                        <<"majorReturnCode", JStr("500")>>,
                                        <<"minorReturnCode", JStr("0000")>> >>))>> >>),
     JDict(<<>>)}

ApiResponses ==
    {NetError, Response(200, Unparsable)} \cup {Response(200, Ok(b)) : b \in ApiBodies}

(* lines 175-183 on a transport answer: r.json(), then _handle_api_response *)
Received(r) ==
    IF r.kind = "neterr" THEN Raise("ConnectionError", "transport", <<>>)
    ELSE IF ~IsOk(r.json) THEN r.json
    ELSE handle_api_response(r.json.val)

Request(to, headers, enc) == [to |-> to, headers |-> headers, enc |-> enc]

-----------------------------------------------------------------------------
(* Actions                                                                  *)

Init ==
    /\ now = 0
    /\ token = None
    /\ built = FALSE
    /\ pc = [c \in Callers |-> "idle"]
    /\ call = [c \in Callers |-> Idle]
    /\ loc = [c \in Callers |-> NoLocals]
    /\ wire = [c \in Callers |-> <<>>]
    /\ result = [c \in Callers |-> Pending]
    /\ vIn = None
    /\ vOut = Pending

(* Entering a public operation: fresh locals, nothing on the wire yet. *)
Enter(c, op, headers, at) ==
    /\ pc[c] = "idle"
    /\ call' = [call EXCEPT ![c] = [op |-> op, headers |-> headers]]
    /\ pc' = [pc EXCEPT ![c] = at]
    /\ loc' = [loc EXCEPT ![c] = [NoLocals EXCEPT !.tokBefore = token]]
    /\ wire' = [wire EXCEPT ![c] = <<>>]
    /\ result' = [result EXCEPT ![c] = Pending]
    /\ UNCHANGED <<now, token, built, vIn, vOut>>

(* The running call of c ends, returning or raising `out`. *)
Finish(c, out) ==
    /\ pc' = [pc EXCEPT ![c] = "idle"]
    /\ result' = [result EXCEPT ![c] = out]

(* __init__ without line 43: the token is left for the first use *)
Construct_lazy(c) ==
    /\ ~built
    /\ c = 1
    /\ pc[c] = "idle"
    /\ call' = [call EXCEPT ![c] = [op |-> "init", headers |-> None]]
    /\ loc' = [loc EXCEPT ![c] = [NoLocals EXCEPT !.tokBefore = token]]
    /\ wire' = [wire EXCEPT ![c] = <<>>]
    /\ result' = [result EXCEPT ![c] = Ok(None)]
    /\ built' = TRUE
    /\ UNCHANGED <<now, token, pc, vIn, vOut>>

(* __init__, lines 36-43: ends in set_auth_token *)
Construct(c) ==
    /\ ~built
    /\ c = 1
    /\ Enter(c, "init", None, "sat_send")

CallGetAuthToken(c) ==
    /\ built
    /\ Enter(c, "get_auth_token", None, "gat_check")

CallSetAuthToken(c) ==
    /\ built
    /\ Enter(c, "set_auth_token", None, "sat_send")

(* _send_message, lines 165-171: the headers argument picks the branch;    *)
(* get_home_document and testing pass headers=None.                         *)
CallSendMessage(c) ==
    /\ built
    /\ \E h \in HeaderArgs :
          Enter(c, "send_message", h,
                IF UseDefaultHeaders(h) THEN "gat_check" ELSE "sm_send")

(* get_auth_token, line 78 *)
GatCheck(c) ==
    /\ pc[c] = "gat_check"
    /\ LET need == NeedsRefresh(token, now) IN
       IF ~IsOk(need)
       THEN /\ Finish(c, need)
            /\ loc' = [loc EXCEPT ![c].checked = "error", ![c].tCheck = now]
       ELSE /\ pc' = [pc EXCEPT ![c] = IF need.val THEN "sat_send" ELSE "gat_ret"]
            /\ loc' = [loc EXCEPT ![c].checked =
                                     IF token = None THEN "absent"
                                     ELSE IF need.val THEN "expired" ELSE "valid",
                                  ![c].tCheck = now]
            /\ UNCHANGED result
    /\ UNCHANGED <<now, token, built, call, wire, vIn, vOut>>

(* set_auth_token, lines 53-69 up to session.request in _send_message.     *)
(* Line 169 decides on the headers of lines 56-66: with explicit headers    *)
(* the request goes out with data= and no token lookup; otherwise           *)
(* _send_message would call get_auth_token from inside the handshake.       *)
SatSend(c) ==
    /\ pc[c] = "sat_send"
    /\ IF UseDefaultHeaders(BasicHeaders)
       THEN IF loc[c].depth >= MaxDepth
            THEN /\ Finish(c, Raise("RecursionError", "maximum recursion depth", <<>>))
                 /\ UNCHANGED <<loc, wire>>
            ELSE /\ loc' = [loc EXCEPT ![c].depth = @ + 1]
                 /\ pc' = [pc EXCEPT ![c] = "gat_check"]
                 /\ UNCHANGED <<wire, result>>
       ELSE /\ wire' = [wire EXCEPT ![c] = Append(@, Request("token", BasicHeaders, "data"))]
            /\ pc' = [pc EXCEPT ![c] = "sat_recv"]
            /\ UNCHANGED <<loc, result>>
    /\ UNCHANGED <<now, token, built, call, vIn, vOut>>

(* set_auth_token sending the token request again when the answer fails *)
SatRecv_retry(c) ==
    /\ pc[c] = "sat_recv"
    /\ \E r \in TokenResponses :
          LET out == Received(r) IN
          /\ loc' = [loc EXCEPT ![c].status = IF r.kind = "response" THEN r.status ELSE 0,
                                ![c].acquired = IF IsOk(out) THEN out.val ELSE None]
          /\ IF IsOk(out)
             THEN /\ token' = out.val
                  /\ pc' = [pc EXCEPT ![c] = "sat_stamp"]
             ELSE /\ pc' = [pc EXCEPT ![c] = "sat_send"]
                  /\ UNCHANGED token
    /\ UNCHANGED <<now, built, call, wire, result, vIn, vOut>>

(* A double-checked store: the answer is dropped when another caller has    *)
(* replaced the cached token since this call began.                         *)
SatRecvFrom_if_unchanged(c, responses) ==
    /\ pc[c] = "sat_recv"
    /\ \E r \in responses :
          LET out == Received(r) IN
          /\ loc' = [loc EXCEPT ![c].status = IF r.kind = "response" THEN r.status ELSE 0,
                                ![c].acquired = IF IsOk(out) THEN out.val ELSE None]
          /\ IF IsOk(out)
             THEN /\ token' = IF token = loc[c].tokBefore THEN out.val ELSE token
                  /\ pc' = [pc EXCEPT ![c] =
                                IF token = loc[c].tokBefore THEN "sat_stamp" ELSE "gat_ret"]
                  /\ UNCHANGED result
             ELSE /\ Finish(c, out)
                  /\ UNCHANGED token
    /\ UNCHANGED <<now, built, call, wire, vIn, vOut>>

(* The answer to the token request, one of `responses`: lines 177-183 and  *)
(* the assignment of line 69, which happens only if _send_message returned. *)
SatRecvFrom(c, responses) ==
    /\ pc[c] = "sat_recv"
    /\ \E r \in responses :
          LET out == Received(r) IN
          /\ loc' = [loc EXCEPT ![c].status = IF r.kind = "response" THEN r.status ELSE 0,
                                ![c].acquired = IF IsOk(out) THEN out.val ELSE None]
          /\ IF IsOk(out)
             THEN /\ token' = out.val
                  /\ pc' = [pc EXCEPT ![c] = "sat_stamp"]
                  /\ UNCHANGED result
             ELSE /\ Finish(c, out)
                  /\ UNCHANGED token
    /\ UNCHANGED <<now, built, call, wire, vIn, vOut>>

SatRecv(c) == SatRecvFrom(c, TokenResponses)

(* set_auth_token, line 70, and its return to __init__, to the caller or   *)
(* to get_auth_token.                                                       *)
SatStamp(c) ==
    /\ pc[c] = "sat_stamp"
    /\ IF token.kind = "dict"
       THEN /\ token' = SetItem(token, "utc_timestamp", DateTime(now))
            /\ IF call[c].op \in {"init", "set_auth_token"} /\ loc[c].depth = 0
               THEN /\ Finish(c, Ok(None))
                    /\ built' = TRUE
               ELSE /\ pc' = [pc EXCEPT ![c] = "gat_ret"]
                    /\ UNCHANGED <<result, built>>
       ELSE /\ Finish(c, Raise("TypeError", "item assignment", <<>>))
            /\ UNCHANGED <<token, built>>
    /\ UNCHANGED <<now, call, loc, wire, vIn, vOut>>

(* get_auth_token, line 80: back to the caller, to the _send_message of   *)
(* an endpoint call, or to a _send_message running inside the handshake    *)
(* (lines 171-175 with the token URL).                                      *)
GatRet(c) ==
    /\ pc[c] = "gat_ret"
    /\ LET t == GetItem(token, "access_token") IN
       IF ~IsOk(t)
       THEN /\ loc' = [loc EXCEPT ![c].gat = t, ![c].gatAt = now, ![c].gatTok = token]
            /\ Finish(c, t)
            /\ UNCHANGED wire
       ELSE IF loc[c].depth > 0
       THEN /\ loc' = [loc EXCEPT ![c].gat = t, ![c].gatAt = now, ![c].gatTok = token,
                                  ![c].depth = @ - 1]
            /\ wire' = [wire EXCEPT ![c] =
                            Append(@, Request("token", BearerHeaders(t.val), "json"))]
            /\ pc' = [pc EXCEPT ![c] = "sat_recv"]
            /\ UNCHANGED result
       ELSE /\ loc' = [loc EXCEPT ![c].gat = t, ![c].gatAt = now, ![c].gatTok = token]
            /\ UNCHANGED wire
            /\ IF call[c].op = "send_message"
               THEN /\ pc' = [pc EXCEPT ![c] = "sm_send"]
                    /\ UNCHANGED result
               ELSE Finish(c, t)
    /\ UNCHANGED <<now, token, built, call, vIn, vOut>>

(* _send_message, lines 170-177: the request of an endpoint call *)
SmSend(c) ==
    /\ pc[c] = "sm_send"
    /\ wire' = [wire EXCEPT ![c] = Append(@,
                    IF UseDefaultHeaders(call[c].headers)
                    THEN Request("api", BearerHeaders(loc[c].gat.val), "json")
                    ELSE Request("api", call[c].headers, "data"))]
    /\ pc' = [pc EXCEPT ![c] = "sm_recv"]
    /\ UNCHANGED <<now, token, built, call, loc, result, vIn, vOut>>

(* _send_message, lines 179-183 *)
SmRecv(c) ==
    /\ pc[c] = "sm_recv"
    /\ \E r \in ApiResponses : Finish(c, Received(r))
    /\ UNCHANGED <<now, token, built, call, loc, wire, vIn, vOut>>

(* time passes *)
Tick ==
    /\ now < MaxTime
    /\ now' = now + 1
    /\ UNCHANGED <<token, built, pc, call, loc, wire, result, vIn, vOut>>

Step(c) ==
    \/ Construct(c)
    \/ CallGetAuthToken(c)
    \/ CallSetAuthToken(c)
    \/ CallSendMessage(c)
    \/ GatCheck(c)
    \/ SatSend(c)
    \/ SatRecv(c)
    \/ SatStamp(c)
    \/ GatRet(c)
    \/ SmSend(c)
    \/ SmRecv(c)

(* One caller at a time: the synchronous, single-threaded use of the client. *)
Next == Tick \/ Step(1)

Spec == Init /\ [][Next]_vars

(* Two callers sharing one client, each calling get_auth_token once; their *)
(* statements interleave freely (no lock in the source).                    *)
(* the answers of the token endpoint in the two-caller runs *)
ConcResponses ==
    {NetError, Response(200, Ok(JDict(<< <<"expires_in", JNum(1)>> >>)))}
    \cup {Response(200, Ok(JDict(<< <<"access_token", JStr(a)>>, <<"expires_in", JNum(e)>> >>))) :
            a \in {"A", "B"}, e \in {-1, 1}}

FirstCall(c) == call[c].op \in {"none", "init"}

StepConc(c) ==
    \/ Construct(c)
    \/ (FirstCall(c) /\ CallGetAuthToken(c))
    \/ GatCheck(c)
    \/ SatSend(c)
    \/ SatRecvFrom(c, ConcResponses)
    \/ SatStamp(c)
    \/ GatRet(c)

NextConc == Tick \/ \E c \in Callers : StepConc(c)

SpecConc == Init /\ [][NextConc]_vars

(* The statements of a running call: every one but the entry into a call. *)
Run(c) ==
    \/ GatCheck(c)
    \/ SatSend(c)
    \/ SatRecv(c)
    \/ SatStamp(c)
    \/ GatRet(c)
    \/ SmSend(c)
    \/ SmRecv(c)

(* A running call keeps executing and every transport request is answered. *)
SpecLive == Init /\ [][Next]_vars /\ WF_vars(Run(1))

-----------------------------------------------------------------------------
(* _handle_api_response on its own, over Bodies                             *)

InitV ==
    /\ now = 0
    /\ token = None
    /\ built = FALSE
    /\ pc = [c \in Callers |-> "idle"]
    /\ call = [c \in Callers |-> Idle]
    /\ loc = [c \in Callers |-> NoLocals]
    /\ wire = [c \in Callers |-> <<>>]
    /\ result = [c \in Callers |-> Pending]
    /\ vIn \in Bodies
    /\ vOut = Pending

Validate ==
    /\ vOut = Pending
    /\ vOut' = handle_api_response(vIn)
    /\ UNCHANGED <<now, token, built, pc, call, loc, wire, result, vIn>>

NextV == Validate

SpecV == InitV /\ [][NextV]_vars

-----------------------------------------------------------------------------
(* Vocabulary of the properties                                             *)

Done(c) == pc[c] = "idle" /\ result[c] # Pending

Returned(c) == Done(c) /\ IsOk(result[c])

Raised(c) == Done(c) /\ ~IsOk(result[c])

TokenRequests(c) == Cardinality({i \in 1..Len(wire[c]) : wire[c][i].to = "token"})

ApiRequests(c) == {wire[c][i] : i \in {j \in 1..Len(wire[c]) : wire[c][j].to = "api"}}

(* tok carries an issue time and a lifetime that int() accepts *)
HasExpiry(tok) ==
    /\ tok.kind = "dict"
    /\ HasKey(tok, "utc_timestamp")
    /\ Lookup(tok, "utc_timestamp").kind = "datetime"
    /\ HasKey(tok, "expires_in")
    /\ IsOk(PyInt(Lookup(tok, "expires_in")))

(* issued_at + expires_in *)
Expiry(tok) == Lookup(tok, "utc_timestamp").t + PyInt(Lookup(tok, "expires_in")).val

(* the call of c has evaluated the condition of line 78 *)
Checked(c) == loc[c].checked # "none"

(* get_auth_token has returned normally inside the call of c *)
GatReturned(c) == IsOk(loc[c].gat)

-----------------------------------------------------------------------------
(* C1: whenever get_auth_token returns normally, the token it returns is   *)
(* not expired at the moment of return: current_time <= issued_at +         *)
(* expires_in of the cached token it was read from, for every expires_in    *)
(* the token endpoint may send, 0 and negative values included.  Stated     *)
(* for the calls during which the clock did not advance.                    *)
C1_NeverReturnsExpired ==
    \A c \in Callers :
        (GatReturned(c) /\ HasExpiry(loc[c].gatTok) /\ loc[c].gatAt = loc[c].tCheck)
            => loc[c].gatAt <= Expiry(loc[c].gatTok)

(* C2: while current_time <= issued_at + expires_in, a get_auth_token call  *)
(* (direct or through an endpoint call) sends nothing to the token          *)
(* endpoint, leaves the cached token unchanged and returns the cached       *)
(* access_token.                                                            *)
C2_IdempotentWhileValid ==
    \A c \in Callers :
        (Checked(c) /\ HasExpiry(loc[c].tokBefore)
                    /\ loc[c].tCheck <= Expiry(loc[c].tokBefore))
            => /\ TokenRequests(c) = 0
               /\ token = loc[c].tokBefore
               /\ pc[c] \notin {"sat_send", "sat_recv", "sat_stamp"}
               /\ (GatReturned(c) =>
                      loc[c].gat = GetItem(loc[c].tokBefore, "access_token"))

C2_Witness ==
    /\ call[1].op = "get_auth_token"
    /\ Returned(1)
    /\ HasExpiry(loc[1].tokBefore)
    /\ loc[1].tCheck > Lookup(loc[1].tokBefore, "utc_timestamp").t
    /\ loc[1].tCheck <= Expiry(loc[1].tokBefore)
    /\ result[1] = GetItem(loc[1].tokBefore, "access_token")

(* C3: the cached token is treated as expired iff current_time > issued_at  *)
(* + expires_in.  A call at exactly issued_at + expires_in sends no token   *)
(* request and returns the cached access_token; a call one second later     *)
(* sends exactly one token request and, when it returns, returns the        *)
(* access_token acquired by that request.                                   *)
C3_StrictExpiry ==
    \A c \in Callers :
        (Checked(c) /\ HasExpiry(loc[c].tokBefore)) =>
            /\ loc[c].checked = (IF loc[c].tCheck > Expiry(loc[c].tokBefore)
                                 THEN "expired" ELSE "valid")
            /\ loc[c].tCheck = Expiry(loc[c].tokBefore) =>
                  /\ TokenRequests(c) = 0
                  /\ (GatReturned(c) =>
                         loc[c].gat = GetItem(loc[c].tokBefore, "access_token"))
            /\ loc[c].tCheck = Expiry(loc[c].tokBefore) + 1 =>
                  /\ TokenRequests(c) = (IF pc[c] = "sat_send" THEN 0 ELSE 1)
                  /\ (GatReturned(c) =>
                         /\ loc[c].acquired # None
                         /\ loc[c].gat = GetItem(loc[c].acquired, "access_token"))

C3_Witness ==
    /\ call[1].op = "get_auth_token"
    /\ Returned(1)
    /\ HasExpiry(loc[1].tokBefore)
    /\ loc[1].tCheck = Expiry(loc[1].tokBefore) + 1
    /\ TokenRequests(1) = 1
    /\ result[1] # GetItem(loc[1].tokBefore, "access_token")

(* C4: a failed refresh never corrupts the cache: when a get_auth_token     *)
(* call or an endpoint call sent a token request and then ended by raising  *)
(* before any endpoint request went out, the cached token after the call    *)
(* equals the cached token before it.                                       *)
C4_FailedRefreshKeepsCache ==
    \A c \in Callers :
        (/\ Raised(c)
         /\ call[c].op \in {"get_auth_token", "send_message"}
         /\ TokenRequests(c) > 0
         /\ ApiRequests(c) = {})
            => token = loc[c].tokBefore

(* C5: set_auth_token signals failure, without replacing the cached token,  *)
(* whenever the token request is answered with an HTTP error status,        *)
(* whatever body comes with it, and whenever the body is not JSON.          *)
C5_ErrorStatusFails ==
    \A c \in Callers :
        loc[c].status >= 400
            => /\ Raised(c)
               /\ token = loc[c].tokBefore

(* C6: in every state of a constructed client, also between the steps of   *)
(* set_auth_token, a cached token that carries access_token and expires_in  *)
(* carries issued_at too.                                                   *)
C6_TokenAtomic ==
    (/\ built
     /\ token # None
     /\ HasKey(token, "access_token")
     /\ HasKey(token, "expires_in"))
        => HasKey(token, "utc_timestamp")

(* C7: header dispatch of _send_message: with no headers the request        *)
(* carries the bearer header built from what get_auth_token just returned   *)
(* and a JSON body; with headers supplied, an empty mapping included, the   *)
(* transport gets exactly those headers and the body verbatim,              *)
(* get_auth_token is not called and the cached token is untouched.          *)
C7_HeaderDispatch ==
    \A c \in Callers :
        call[c].op = "send_message" =>
            IF call[c].headers = None
            THEN \A r \in ApiRequests(c) :
                    /\ GatReturned(c)
                    /\ r.headers = BearerHeaders(loc[c].gat.val)
                    /\ r.enc = "json"
            ELSE /\ ~Checked(c)
                 /\ TokenRequests(c) = 0
                 /\ token = loc[c].tokBefore
                 /\ \A r \in ApiRequests(c) :
                        r.headers = call[c].headers /\ r.enc = "data"

-----------------------------------------------------------------------------
(* Properties of _handle_api_response, over SpecV                           *)

Validated == vOut # Pending

IsValueError(o, tag) == ~IsOk(o) /\ o.exc = "ValueError" /\ o.tag = tag

IsObject(j) == j.kind = "dict"

HasTop(j, k) == IsObject(j) /\ HasKey(j, k)

(* the returnCode object under the first top-level key, when there is one *)
HasReturnCode(j) ==
    /\ IsObject(j) /\ Len(j.items) > 0
    /\ IsObject(j.items[1][2]) /\ HasKey(j.items[1][2], "return")
    /\ IsObject(Lookup(j.items[1][2], "return"))
    /\ HasKey(Lookup(j.items[1][2], "return"), "returnCode")
    /\ IsObject(Lookup(Lookup(j.items[1][2], "return"), "returnCode"))

ReturnCodeOf(j) == Lookup(Lookup(j.items[1][2], "return"), "returnCode")

(* majorReturnCode != "000" or minorReturnCode != "0000", on the fields present *)
FailingReturnCode(j) ==
    /\ HasReturnCode(j)
    /\ \/ /\ HasKey(ReturnCodeOf(j), "majorReturnCode")
          /\ Lookup(ReturnCodeOf(j), "majorReturnCode") # JStr("000")
       \/ /\ HasKey(ReturnCodeOf(j), "minorReturnCode")
          /\ Lookup(ReturnCodeOf(j), "minorReturnCode") # JStr("0000")

ServiceErrorDescription(j) ==
    /\ HasTop(j, "description")
    /\ Lookup(j, "description").kind = "str"
    /\ Contains(Lookup(j, "description").s, "Service Error")

(* both code fields present, and not the pair "000" / "0000" *)
BothCodesFailing(j) ==
    /\ HasReturnCode(j)
    /\ HasKey(ReturnCodeOf(j), "majorReturnCode")
    /\ HasKey(ReturnCodeOf(j), "minorReturnCode")
    /\ \/ Lookup(ReturnCodeOf(j), "majorReturnCode") # JStr("000")
       \/ Lookup(ReturnCodeOf(j), "minorReturnCode") # JStr("0000")

(* C8: a non-empty body with no top-level error key and no top-level        *)
(* description key whose first key holds a return.returnCode with           *)
(* majorReturnCode != "000" or minorReturnCode != "0000" fails with the     *)
(* vendor return-code error carrying both codes, with or without a         *)
(* description in returnCode: the error does not depend on that             *)
(* field.  Stated for the bodies that carry both code fields.               *)
C8_ReturnCodeFails ==
    (/\ Validated
     /\ Truthy(vIn)
     /\ ~HasTop(vIn, "error")
     /\ ~HasTop(vIn, "description")
     /\ BothCodesFailing(vIn))
        => /\ IsValueError(vOut, "Return Code")
           /\ vOut.args[2] = Lookup(ReturnCodeOf(vIn), "majorReturnCode")
           /\ vOut.args[3] = Lookup(ReturnCodeOf(vIn), "minorReturnCode")

(* C9: fixed error precedence: an empty body fails as empty response; else  *)
(* a body with a top-level error key fails as oauth error; else a body      *)
(* whose description contains "Service Error" fails as service error; each  *)
(* time with that error kind, also when error_description or id is missing. *)
C9_ErrorPrecedence ==
    Validated =>
        IF ~Truthy(vIn) THEN IsValueError(vOut, "no data returned")
        ELSE IF HasTop(vIn, "error") THEN IsValueError(vOut, "Standard Error")
        ELSE ServiceErrorDescription(vIn) => IsValueError(vOut, "Service Error")

(* C10: validation is permissive: a non-empty body with no error key, no    *)
(* description containing "Service Error" and no failing return.returnCode  *)
(* under its first key (objects or not) is returned unchanged.              *)
C10_Permissive ==
    (/\ Validated
     /\ Truthy(vIn)
     /\ ~HasTop(vIn, "error")
     /\ ~ServiceErrorDescription(vIn)
     /\ ~FailingReturnCode(vIn))
        => vOut = Ok(vIn)

-----------------------------------------------------------------------------
(* C11 as stated: constructing the client sends no request to the token     *)
(* endpoint, leaves the cached token absent and cannot fail because of a    *)
(* token fetch.                                                             *)
C11_LazyToken ==
    \A c \in Callers :
        call[c].op = "init" =>
            /\ TokenRequests(c) = 0
            /\ token = None
            /\ ~Raised(c)

(* C11, amended: __init__ sends exactly one token request; when it returns  *)
(* the cached token is present and stamped, when the fetch fails the        *)
(* construction fails and nothing is cached; on a constructed client the    *)
(* token is never absent, so get_auth_token never takes its `token is None` *)
(* branch.                                                                  *)
C11_EagerToken ==
    /\ built => token # None
    /\ \A c \in Callers :
          /\ (call[c].op = "init" /\ Done(c)) =>
                /\ TokenRequests(c) = 1
                /\ Returned(c) => (built /\ HasKey(token, "utc_timestamp"))
                /\ Raised(c) => (~built /\ token = None)
          /\ Checked(c) => loc[c].checked # "absent"

C11_Witness ==
    /\ call[1].op = "init"
    /\ Returned(1)
    /\ built
    /\ TokenRequests(1) = 1
    /\ HasKey(token, "access_token")

(* C12: the return-code inspection applies to every body that matched no    *)
(* earlier check: a non-empty body with no error key whose top-level        *)
(* description does not contain "Service Error" fails with the vendor       *)
(* return-code error when its first key holds a return.returnCode with      *)
(* majorReturnCode != "000" or minorReturnCode != "0000".  Stated for the   *)
(* returnCode objects that carry description and both codes.                *)
C12_ReturnCodeAfterDescription ==
    (/\ Validated
     /\ Truthy(vIn)
     /\ ~HasTop(vIn, "error")
     /\ HasTop(vIn, "description")
     /\ Lookup(vIn, "description").kind = "str"
     /\ ~ServiceErrorDescription(vIn)
     /\ BothCodesFailing(vIn)
     /\ HasKey(ReturnCodeOf(vIn), "description"))
        => IsValueError(vOut, "Return Code")

-----------------------------------------------------------------------------
RequestCount(c, to) == Cardinality({i \in 1..Len(wire[c]) : wire[c][i].to = to})

(* C13: within one _send_message call without headers the transport gets    *)
(* at most one token request followed by at most one endpoint request, in   *)
(* that order; the endpoint request is sent only after get_auth_token       *)
(* returned, so never after a token request that failed or whose answer     *)
(* failed validation; and once the call has raised nothing more is sent.    *)
C13_OrderNoRetry ==
    \A c \in Callers :
        (call[c].op = "send_message" /\ call[c].headers = None) =>
            /\ RequestCount(c, "token") <= 1
            /\ RequestCount(c, "api") <= 1
            /\ \A i, j \in 1..Len(wire[c]) :
                  (wire[c][i].to = "api" /\ wire[c][j].to = "token") => j < i
            /\ RequestCount(c, "api") = 1 =>
                  /\ GatReturned(c)
                  /\ RequestCount(c, "token") = 1 => loc[c].acquired # None
            /\ (pc[c] \notin {"sat_send", "sat_recv"} /\ RequestCount(c, "token") = 1
                    /\ loc[c].acquired = None) =>
                  /\ Raised(c)
                  /\ RequestCount(c, "api") = 0

C13_Witness ==
    /\ call[1].op = "send_message"
    /\ call[1].headers = None
    /\ Raised(1)
    /\ Len(wire[1]) = 2
    /\ wire[1][1].to = "token"
    /\ wire[1][2].to = "api"

-----------------------------------------------------------------------------
(* C14: the handshake does not recurse: the _send_message call made by      *)
(* set_auth_token always takes the explicit-headers branch (its request     *)
(* carries the Basic headers and the body verbatim) and never calls         *)
(* get_auth_token, so no dispatch is nested inside the handshake; and every *)
(* call that was entered returns or raises, given that each transport       *)
(* request is answered.                                                     *)
C14_NoRecursion ==
    /\ [](\A c \in Callers :
            /\ loc[c].depth = 0
            /\ \A i \in 1..Len(wire[c]) :
                  wire[c][i].to = "token" =>
                      (wire[c][i].headers = BasicHeaders /\ wire[c][i].enc = "data"))
    /\ \A c \in Callers : (pc[c] # "idle") ~> Done(c)

C14_Witness ==
    /\ call[1].op = "send_message"
    /\ call[1].headers = None
    /\ Returned(1)
    /\ loc[1].checked = "expired"
    /\ Len(wire[1]) = 2
    /\ wire[1][1] = Request("token", BasicHeaders, "data")
    /\ wire[1][2].to = "api"

-----------------------------------------------------------------------------
(* C15: the refresh is not synchronised.  A caller whose check finds the    *)
(* cached token expired goes on to refresh whatever the other caller is     *)
(* doing; every validated answer is stored over the cached token, and the   *)
(* stamp goes on whatever is cached at that moment: the cached token ends   *)
(* as the acquisition stored last.  The witness is the race itself: both    *)
(* callers have passed the check on the same expired token and each has     *)
(* sent its own token request before either stored.                         *)
C15_UnguardedRefresh ==
    [][\A c \in Callers :
          /\ (pc[c] = "gat_check" /\ pc'[c] # "gat_check"
                  /\ HasExpiry(token) /\ now > Expiry(token))
                => pc'[c] = "sat_send"
          /\ (pc[c] = "sat_recv" /\ pc'[c] # "sat_recv" /\ loc'[c].acquired # None)
                => (token' = loc'[c].acquired /\ pc'[c] = "sat_stamp")
          /\ (pc[c] = "sat_stamp" /\ pc'[c] # "sat_stamp")
                => token' = SetItem(token, "utc_timestamp", DateTime(now))]_vars

C15_Witness ==
    /\ built
    /\ \A c \in Callers :
          /\ call[c].op = "get_auth_token"
          /\ pc[c] = "sat_recv"
          /\ loc[c].checked = "expired"
          /\ loc[c].tokBefore = token
          /\ TokenRequests(c) = 1

(* both refreshes completed: each caller sent its own token request, the   *)
(* cache holds the acquisition stored last and both callers returned it     *)
C15_BothStored ==
    /\ \A c \in Callers :
          /\ call[c].op = "get_auth_token"
          /\ Returned(c)
          /\ loc[c].checked = "expired"
          /\ TokenRequests(c) = 1
    /\ loc[1].tokBefore = loc[2].tokBefore
    /\ loc[1].acquired # loc[2].acquired
    /\ Lookup(token, "access_token") = Lookup(loc[2].acquired, "access_token")
    /\ result[1] = result[2]

-----------------------------------------------------------------------------
(* C16: no failed or malformed token acquisition leaves the client          *)
(* permanently broken: a constructed client at rest is never in a state     *)
(* from which get_auth_token raises at its expiry check, before any token   *)
(* request is sent, now and at every later time.                            *)
C16_Recoverable ==
    (built /\ \A c \in Callers : pc[c] = "idle")
        => \E t \in now..MaxTime : IsOk(NeedsRefresh(token, t))

====
